---- MODULE Spec2Model ----
(***************************************************************************)
(* The gRPC interceptor pipeline of ego: the client interceptors of        *)
(* client/egrpc/interceptor.go and the server interceptors (package egrpc  *)
(* in cmd/protoc-gen-go-errors/main.go), the propagated-header registry    *)
(* (core/transport) and the status mapping (internal/ecode) they work     *)
(* with.  One call at a time runs through a chain of nested interceptors:  *)
(* the pre-work of each layer, the real invocation, then the post-work of  *)
(* each layer in reverse.  Registry updates (transport.Set) interleave     *)
(* with the steps of a call.                                               *)
(***************************************************************************)
EXTENDS Integers, Sequences, FiniteSets, TLC

\* ---------------------------------------------------------------- bounds
MaxDelay == 2      \* the longest time a real invocation takes
MaxSets == 1       \* registry updates in one behaviour
MaxCalls == 3      \* calls in one behaviour (client -> server -> client)
MaxUsage == 12     \* the largest CPU usage sample

\* ------------------------------------------------------------ constants
StackBufSize == 4096                 \* bytes of stack the panic guard keeps
StatusInternalServerError == 500     \* http.StatusInternalServerError
DefaultTimeout == 2                  \* the chain's configured default timeout

\* gRPC status codes (google.golang.org/grpc/codes)
OK == 0
Unknown == 2
InvalidArgument == 3
DeadlineExceeded == 4
NotFound == 5
Internal == 13
Unavailable == 14

NoDeadline == -1   \* ctx.Deadline() reports ok = false

\* ------------------------------------------------------------- strings
DigitStr == <<"0", "1", "2", "3", "4", "5", "6", "7", "8", "9">>

\* strconv.Itoa / the %v rendering of a non-negative integer
RECURSIVE Itoa(_)
Itoa(n) == IF n < 10 THEN DigitStr[n + 1]
           ELSE Itoa(n \div 10) \o DigitStr[(n % 10) + 1]

DigitVal(c) == CHOOSE d \in 0..9 : DigitStr[d + 1] = c

\* the decimal value of a string of digits
RECURSIVE Atoi(_)
Atoi(s) == IF Len(s) = 0 THEN 0
           ELSE Atoi(SubSeq(s, 1, Len(s) - 1)) * 10 + DigitVal(SubSeq(s, Len(s), Len(s)))

\* strings.Join
RECURSIVE Join(_, _)
Join(vs, sep) == IF vs = <<>> THEN ""
                 ELSE IF Len(vs) = 1 THEN vs[1]
                 ELSE vs[1] \o sep \o Join(Tail(vs), sep)

\* ----------------------------------------------------------- metadata
\* Header names that may be registered, and their lower-case wire form.
Names == {"X-Uid", "x-rid"}

ToLower(k) == IF k = "X-Uid" THEN "x-uid" ELSE k

\* metadata.MD.Get: the values under a key, the key compared in lower case
RECURSIVE MDGet(_, _)
MDGet(md, k) == IF md = <<>> THEN <<>>
                ELSE (IF Head(md)[1] = ToLower(k) THEN <<Head(md)[2]>> ELSE <<>>)
                     \o MDGet(Tail(md), k)

\* The carrier as it is on the wire: keys in lower case, order kept.
Wire(out) == [i \in 1..Len(out) |-> <<ToLower(out[i][1]), out[i][2]>>]

\* metadata.AppendToOutgoingContext: a new context, the caller's unchanged
AppendToOutgoingContext(ctx, k, v) == [ctx EXCEPT !.out = Append(@, <<k, v>>)]

\* transport.WithValue / transport.Value
\* A context holds a value under any name it was given one for; a name
\* without a value yields nothing, which reads as the empty string.
Value(ctx, k) == IF k \in DOMAIN ctx.vals THEN ctx.vals[k] ELSE ""

WithValueKeep(ctx, k, v) ==
    IF Value(ctx, k) # "" THEN ctx
    ELSE [ctx EXCEPT !.vals = [x \in (DOMAIN @) \cup {k} |-> IF x = k THEN v ELSE @[x]]]

WithValue(ctx, k, v) ==
    [ctx EXCEPT !.vals = [x \in (DOMAIN @) \cup {k} |-> IF x = k THEN v ELSE @[x]]]

\* What the context passed to WithValue holds afterwards: what it held, the
\* value goes into the context returned.
WithValueHeld(held, k, v) == held

\* tools.ContextValue
ContextValue(ctx, k) == IF k = "" THEN "" ELSE Value(ctx, k)

\* tools.GrpcHeaderValue: the incoming values under a key, joined
GrpcHeaderValue(ctx, k) == IF k = "" THEN "" ELSE Join(MDGet(ctx.inc, k), ";")

\* -------------------------------------------------------------- errors
NilErr == [nil |-> TRUE, st |-> FALSE, code |-> OK, msg |-> ""]

StatusErr(c, m) == [nil |-> FALSE, st |-> TRUE, code |-> c, msg |-> m]

PlainErr(m) == [nil |-> FALSE, st |-> FALSE, code |-> Unknown, msg |-> m]

\* status.Convert(err).Code(): OK for nil, Unknown for an error without status
StatusCode(err) == IF err.nil THEN OK ELSE IF err.st THEN err.code ELSE Unknown

\* status.Convert(err).Message()
StatusMessage(err) == err.msg

\* codes.Code.String
CodeName(c) ==
    CASE c = OK -> "OK"
      [] c = 1 -> "Canceled"
      [] c = Unknown -> "Unknown"
      [] c = InvalidArgument -> "InvalidArgument"
      [] c = DeadlineExceeded -> "DeadlineExceeded"
      [] c = NotFound -> "NotFound"
      [] c = 6 -> "AlreadyExists"
      [] c = 7 -> "PermissionDenied"
      [] c = 8 -> "ResourceExhausted"
      [] c = 9 -> "FailedPrecondition"
      [] c = 10 -> "Aborted"
      [] c = 11 -> "OutOfRange"
      [] c = 12 -> "Unimplemented"
      [] c = Internal -> "Internal"
      [] c = Unavailable -> "Unavailable"
      [] c = 15 -> "DataLoss"
      [] c = 16 -> "Unauthenticated"
      [] OTHER -> "Code(" \o Itoa(c) \o ")"

\* err.Error(): a status error prints its code and its description
ErrorText(err) ==
    IF err.st THEN "rpc error: code = " \o CodeName(err.code) \o " desc = " \o err.msg
    ELSE err.msg

\* ecode.GrpcToHTTPStatusCode
GrpcToHTTPStatusCode(c) ==
    CASE c = OK -> 200
      [] c = 1 -> 408
      [] c = Unknown -> 500
      [] c = InvalidArgument -> 400
      [] c = DeadlineExceeded -> 504
      [] c = NotFound -> 404
      [] c = 6 -> 409
      [] c = 7 -> 403
      [] c = 8 -> 429
      [] c = 9 -> 400
      [] c = 10 -> 409
      [] c = 11 -> 400
      [] c = 12 -> 501
      [] c = Internal -> 500
      [] c = Unavailable -> 503
      [] c = 15 -> 500
      [] c = 16 -> 401
      [] OTHER -> 500

\* http.StatusText: the text of a status net/http knows (here the statuses the
\* mapping above yields), the empty string for any other number
StatusText(h) ==
    CASE h = 200 -> "OK"
      [] h = 400 -> "Bad Request"
      [] h = 401 -> "Unauthorized"
      [] h = 403 -> "Forbidden"
      [] h = 404 -> "Not Found"
      [] h = 408 -> "Request Timeout"
      [] h = 409 -> "Conflict"
      [] h = 429 -> "Too Many Requests"
      [] h = 500 -> "Internal Server Error"
      [] h = 501 -> "Not Implemented"
      [] h = 503 -> "Service Unavailable"
      [] h = 504 -> "Gateway Timeout"
      [] OTHER -> ""

\* ------------------------------------------------------------ contexts
\* The values stored in a context, by name.
NoVals == [k \in Names |-> ""]

\* A context: its deadline, its outgoing metadata (a sequence of
\* <<key, value>>), whether it has incoming metadata and which, the address
\* of its peer ("" without one), the values
\* stored in it, and the trace id of the span it carries ("" without a span).
EmptyCtx == [deadline |-> NoDeadline, out |-> <<>>, incOk |-> FALSE, inc |-> <<>>,
             peer |-> "", vals |-> NoVals, tid |-> ""]

\* ------------------------------------------------------- configuration
RegistryLists == {<<>>, <<"X-Uid", "x-rid">>, <<"x-rid", "X-Uid">>}

\* The registry as the process configured it before the chain was built.
ConfiguredLists == {<<>>, <<"X-Uid", "x-rid">>}

\* A configuration: access logging, the slow threshold, the optional extras
\* (payload fields, the CPU usage request) on or off together, the trace id
\* in the log, and whether the process has registered a global tracer.
Cfg(access, slow, extras, trace, tracer) ==
    [EnableAccessInterceptor |-> access,
     EnableAccessInterceptorReq |-> extras,
     EnableAccessInterceptorRes |-> extras,
     EnableCPUUsage |-> extras,
     EnableTraceInterceptor |-> trace,
     GlobalTracerRegistered |-> tracer,
     SlowLogThreshold |-> slow,
     timeout |-> DefaultTimeout]

SlowThresholds == {0, 1}

\* Every combination of access logging, threshold and extras in a process
\* with a tracer, the trace id asked for together with access logging (so
\* with and without the payload fields); and the trace id asked for in a
\* process without a tracer.
Configs == {Cfg(a, s, x, a, TRUE) : a \in BOOLEAN, s \in SlowThresholds, x \in BOOLEAN}
           \cup {Cfg(TRUE, 1, TRUE, TRUE, FALSE)}

\* The interceptors of one call, outermost first.
ClientChain == <<"debug", "trace", "metric", "timeout", "customHeader", "default", "logger">>

ServerChain == <<"srvTrace", "srvPrometheus", "srvDefault">>

StreamServerChain == <<"srvTraceStream", "srvPrometheusStream", "srvDefaultStream">>

\* --------------------------------------------------------------- inputs
\* The address a server call's peer has.
PeerAddr == "10.0.0.1:5000"

\* A server call's context: the carrier that arrived, when one did.
ServerCtx(ok, md) == [EmptyCtx EXCEPT !.incOk = ok, !.inc = md, !.peer = PeerAddr]

\* The clock when a caller starts a call.
StartTimes == {0, 1}

\* No deadline, one that is earlier than any default, one that is later.
CallerDeadlines == {NoDeadline, 1, DefaultTimeout + 2}

CallerVals == {NoVals,
               [k \in Names |-> IF k = "X-Uid" THEN "u1" ELSE ""],
               [k \in Names |-> IF k = "X-Uid" THEN "u1" ELSE "r2"]}

\* The outgoing metadata a caller set itself: none, or a header under a
\* name that may be registered.
CallerOut == {<<>>, <<<<"X-Uid", "u1">>>>}

Ctx(d, v, o) == [EmptyCtx EXCEPT !.deadline = d, !.out = o, !.vals = v]

\* The context of a handler that calls out: the incoming metadata of its own
\* call, and a value it stored under a name that the metadata holds too.
HandlerCtx == [EmptyCtx EXCEPT !.incOk = TRUE, !.inc = <<<<"x-uid", "u9">>>>,
                               !.peer = PeerAddr,
                               !.vals = [k \in Names |-> IF k = "X-Uid" THEN "u1" ELSE ""]]

\* The calls a caller makes, as <<context, start time>>: every deadline at
\* every start time, and every combination of stored values and outgoing
\* metadata, and a handler's outbound call.
CallerCalls == {<<Ctx(d, NoVals, <<>>), t>> : d \in CallerDeadlines, t \in StartTimes}
               \cup {<<Ctx(NoDeadline, v, o), 0>> : v \in CallerVals, o \in CallerOut}
               \cup {<<HandlerCtx, 0>>}

\* What arrives with a server call, as <<whether it has incoming metadata,
\* the metadata>>: no metadata at all; an application name and the CPU
\* usage flag; the flag and propagated headers without a name; two names
\* and the flag twice.
IncomingCarriers ==
    {<<FALSE, <<>>>>,
     <<TRUE, <<<<"app", "peer1">>, <<"enable-cpu-usage", "true">>>>>>,
     <<TRUE, <<<<"enable-cpu-usage", "true">>, <<"x-uid", "u1">>, <<"x-rid", "r2">>>>>>,
     <<TRUE, <<<<"app", "peer1">>, <<"app", "peer2">>, <<"enable-cpu-usage", "true">>,
               <<"enable-cpu-usage", "true">>>>>>}

Errors == {NilErr, StatusErr(NotFound, "nf"), StatusErr(Internal, "boom"), PlainErr("io")}

NoPanic == [t |-> "none", s |-> "", n |-> 0, e |-> NilErr]

PanicValues == {[t |-> "string", s |-> "oops", n |-> 0, e |-> NilErr],
                [t |-> "int", s |-> "", n |-> 42, e |-> NilErr],
                [t |-> "error", s |-> "", n |-> 0, e |-> StatusErr(NotFound, "nf")],
                [t |-> "error", s |-> "", n |-> 0, e |-> PlainErr("io")]}

\* The bytes of stack at the panic: some fit the guard's buffer, some do not.
StackOf(pv) == IF pv.t = "int" THEN StackBufSize + 904 ELSE 100

\* What a real invocation can do: return, or panic.
Returned(err, res) == [kind |-> "ret", err |-> err, res |-> res, pv |-> NoPanic, stack |-> 0]

Panicked(pv, n) == [kind |-> "panic", err |-> NilErr, res |-> "nil", pv |-> pv, stack |-> n]

NoOutcome == [kind |-> "none", err |-> NilErr, res |-> "nil", pv |-> NoPanic, stack |-> 0]

\* What a server handler can do.
Outcomes == {Returned(NilErr, "reply"), Returned(StatusErr(NotFound, "nf"), "nil"),
             Returned(StatusErr(Internal, "boom"), "nil"), Returned(PlainErr("io"), "reply")}
            \cup {Panicked(pv, StackOf(pv)) : pv \in PanicValues}

StreamOutcomes == {Returned(e, "nil") : e \in Errors}
                  \cup {Panicked(pv, StackOf(pv)) : pv \in PanicValues}

\* What the CPU sampler reports: nothing (the usage stays 0), or a usage.
CpuSamples == {[ok |-> FALSE, usage |-> 0], [ok |-> TRUE, usage |-> 0],
               [ok |-> TRUE, usage |-> MaxUsage]}

\* What it would report to a call that does not read it.
UnreadSamples == {[ok |-> FALSE, usage |-> 0], [ok |-> TRUE, usage |-> MaxUsage]}

\* ---------------------------------------------------------------- state
VARIABLES
    config,      \* the chain's configuration, resolved when the chain is built
    extraKeys,   \* the key list customHeader captured when the chain was built
    keyArr,      \* the registry: transport's current list of header names
    setLog,      \* every list the registry has held (the initial one and each Set)
    nsets,       \* registry updates so far
    lastSet,     \* the list passed to the most recent Set
    ncalls,      \* calls started so far
    now,         \* the clock
    side,        \* "none", "client", "server" (unary) or "stream"
    origin,      \* how the call started: "fresh", "wire" or "handler"
    chain,       \* the interceptors of the current call
    depth,       \* the layer at work; Len(chain) + 1 is the real invocation
    phase,       \* "idle", "pre", "post" or "done"
    ctxs,        \* ctxs[i]: the context layer i received; the last: the invocation's
    tmo,         \* timeout interceptor: entry time, cancel function made / called
    span,        \* tracing interceptor: the span's state, and its tags when it was finished
    metrics,     \* metric interceptor: the <<peer, outcome>> counted, the peers observed
    stdlog,      \* debug interceptor: the lines printed
    lg,          \* access logger (client logger, server default): its locals and named err
    cpu,         \* server: the CPU sample and what became of the header
    invoked,     \* what the real invocation did
    ret,         \* what the layer at work hands to its caller
    logs,        \* log entries emitted for the current call
    respHeader,  \* response header metadata
    wire,        \* the carrier the last client call sent
    hctx,        \* the context the last server handler received
    upstream,    \* the last server call: the carrier it received, and the registered keys:
                 \* those it read, or those there were when the handler of a stream
                 \* call, which reads none, was called
    events,      \* the steps of the current call, in the order they happened
    callerOut,   \* the outgoing metadata that the caller's own context holds
    callerVals,  \* the values that the caller's own context holds
    totals,      \* the metrics collectors: each one's counter by outcome and histogram
    bg           \* another call in flight through a metrics interceptor

vars == <<config, extraKeys, keyArr, setLog, nsets, lastSet, ncalls, now, side, origin,
          chain, depth, phase, ctxs, tmo, span, metrics, stdlog, lg, cpu, invoked, ret, logs,
          respHeader, wire, hctx, upstream, events, callerOut, callerVals, totals, bg>>

regVars == <<keyArr, setLog, nsets, lastSet>>

cfgVars == <<config, extraKeys>>

linkVars == <<wire, hctx, upstream>>

NoTmo == [entry |-> 0, made |-> FALSE, cancels |-> 0]

NoSpan == [started |-> 0, finished |-> 0, code |-> -1, error |-> FALSE, message |-> "",
           sealed |-> <<>>]

NoMetrics == [counter |-> <<>>, histogram |-> <<>>]

NoLg == [step |-> "enter", beg |-> 0, keys |-> <<>>, cap |-> 0, idx |-> 1,
         fields |-> <<>>, used |-> <<>>, ctx |-> EmptyCtx, err |-> NilErr]

NoCpu == [asked |-> FALSE, ok |-> FALSE, usage |-> 0, set |-> "none"]

\* The outcome labels the counter is kept by.
OutcomeLabels == {StatusText(GrpcToHTTPStatusCode(c)) : c \in 0..16}

\* A collector: its counter by outcome and its histogram's observations.
NoCollector == [counter |-> [l \in OutcomeLabels |-> 0], histogram |-> 0]

\* The client's collector (emetric.ClientHandle*) and the server's
\* (emetric.ServerHandle*).
NoTotals == [client |-> NoCollector, server |-> NoCollector]

NoBg == [pc |-> "idle", side |-> "none", err |-> NilErr]

NoUpstream == [carrier |-> <<>>, keys |-> <<>>, from |-> "none", side |-> "none"]

Init ==
    /\ config \in Configs
    /\ keyArr \in ConfiguredLists
    /\ extraKeys = keyArr
    /\ setLog = {keyArr}
    /\ nsets = 0
    /\ lastSet = keyArr
    /\ ncalls = 0
    /\ now = 0
    /\ side = "none"
    /\ origin = "fresh"
    /\ chain = <<>>
    /\ depth = 1
    /\ phase = "idle"
    /\ ctxs = <<>>
    /\ tmo = NoTmo
    /\ span = NoSpan
    /\ metrics = NoMetrics
    /\ stdlog = <<>>
    /\ lg = NoLg
    /\ cpu = NoCpu
    /\ invoked = NoOutcome
    /\ ret = NoOutcome
    /\ logs = <<>>
    /\ respHeader = <<>>
    /\ wire = <<>>
    /\ hctx = EmptyCtx
    /\ upstream = NoUpstream
    /\ events = <<>>
    /\ callerOut = <<>>
    /\ callerVals = NoVals
    /\ totals = NoTotals
    /\ bg = NoBg

\* ------------------------------------------------------------- registry
\* transport.Set: the whole list is replaced in one step.
RECURSIVE SetKeysMerge(_, _)
SetKeysMerge(cur, arr) ==
    IF arr = <<>> THEN cur
    ELSE SetKeysMerge(IF \E i \in 1..Len(cur) : cur[i] = Head(arr) THEN cur
                      ELSE Append(cur, Head(arr)),
                      Tail(arr))

SetKeys(cur, arr) == arr

Set(arr) ==
    /\ nsets < MaxSets
    /\ keyArr' = SetKeys(keyArr, arr)
    /\ setLog' = setLog \cup {arr}
    /\ nsets' = nsets + 1
    /\ lastSet' = arr
    /\ UNCHANGED <<cfgVars, callerOut, callerVals, totals, bg, ncalls, now, side, origin, chain, depth,
                   phase, ctxs, tmo, span, metrics, stdlog, lg, cpu, invoked, ret, logs,
                   respHeader, linkVars, events>>

\* transport.CustomContextKeys / CustomContextKeysLength
CustomContextKeys == keyArr

CustomContextKeysLength == Len(keyArr)

\* ---------------------------------------------------------------- calls
Layer == IF depth <= Len(chain) THEN chain[depth] ELSE "invoke"

AtPre(name) == phase = "pre" /\ Layer = name

AtPost(name) == phase = "post" /\ depth >= 1 /\ Layer = name

\* The layer at work hands `ctx` to the next stage.
CallNext(ctx) ==
    /\ ctxs' = Append(ctxs, ctx)
    /\ depth' = depth + 1
    /\ phase' = "pre"
    /\ events' = Append(events, <<"pre", Layer>>)

\* The layer at work returns to its caller.
ReturnUp ==
    /\ depth' = depth - 1
    /\ phase' = IF depth = 1 THEN "done" ELSE "post"
    /\ events' = Append(events, <<"post", Layer>>)

Begin(sd, org, ch, ctx, t) ==
    /\ side' = sd
    /\ origin' = org
    /\ chain' = ch
    /\ ctxs' = <<ctx>>
    /\ depth' = 1
    /\ phase' = "pre"
    /\ now' = t
    /\ ncalls' = ncalls + 1
    /\ tmo' = NoTmo
    /\ span' = NoSpan
    /\ metrics' = NoMetrics
    /\ stdlog' = <<>>
    /\ lg' = NoLg
    /\ cpu' = NoCpu
    /\ invoked' = NoOutcome
    /\ ret' = NoOutcome
    /\ logs' = <<>>
    /\ respHeader' = <<>>
    /\ events' = <<>>
    /\ callerOut' = ctx.out
    /\ callerVals' = ctx.vals

\* A caller makes a unary client call with a context of its own.
StartClient ==
    /\ phase = "idle"
    /\ \E c \in CallerCalls : Begin("client", "fresh", ClientChain, c[1], c[2])
    /\ UNCHANGED <<cfgVars, regVars, linkVars, totals, bg>>

\* A server handler makes an outbound client call with the context it received.
StartClientFromHandler ==
    /\ phase = "done"
    /\ side \in {"server", "stream"}
    /\ ncalls < MaxCalls
    /\ Begin("client", "handler", ClientChain, hctx, now)
    /\ UNCHANGED <<cfgVars, regVars, linkVars, totals, bg>>

\* The carrier a client call sent reaches a server.
StartServerFromWire ==
    /\ phase = "done"
    /\ side = "client"
    /\ ncalls < MaxCalls
    /\ \E sd \in {"server", "stream"} :
          Begin(sd, "wire", (IF sd = "stream" THEN StreamServerChain ELSE ServerChain), ServerCtx(TRUE, wire), now)
    /\ UNCHANGED <<cfgVars, regVars, linkVars, totals, bg>>

\* ------------------------------------------------- client interceptors
\* debugUnaryClientInterceptor
DebugLine(err) == IF ~err.nil THEN "error" ELSE "info"

DebugReturn(err) == err

Pre_debug ==
    /\ AtPre("debug")
    /\ CallNext(ctxs[depth])
    /\ UNCHANGED <<cfgVars, regVars, linkVars, callerOut, callerVals, totals, bg, ncalls, now, side,
                   origin, chain, tmo, span, metrics, stdlog, lg, cpu, invoked, ret, logs,
                   respHeader>>

Post_debug ==
    /\ AtPost("debug")
    /\ IF ret.kind = "ret"
       THEN /\ stdlog' = Append(stdlog, DebugLine(ret.err))
            /\ ret' = [ret EXCEPT !.err = DebugReturn(ret.err)]
       ELSE UNCHANGED <<stdlog, ret>>
    /\ ReturnUp
    /\ UNCHANGED <<cfgVars, regVars, linkVars, callerOut, callerVals, totals, bg, ncalls, now, side,
                   origin, chain, ctxs, tmo, span, metrics, lg, cpu, invoked, logs,
                   respHeader>>

\* traceUnaryClientInterceptor: the span context goes into a copy of the
\* outgoing metadata; the span is finished by a deferred call.
MetadataInjector(ctx) == [ctx EXCEPT !.out = Append(@, <<"uber-trace-id", "t1">>)]

\* etrace.StartSpanFromContext (lines 81-86): the context it returns carries
\* the span, and with it the span's trace id.
StartSpanFromContext(ctx) == [ctx EXCEPT !.tid = "t1"]

\* etrace.ExtractTraceID: the trace id of the span the context carries
ExtractTraceID(ctx) == ctx.tid

\* opentracing.IsGlobalTracerRegistered
IsGlobalTracerRegistered(cfg) == cfg.GlobalTracerRegistered

\* status.FromError: the code of a status error, codes.Unknown otherwise
TraceCode(err) == IF err.st THEN err.code ELSE Unknown

\* The tags and the event a span gets for an error (lines 90-99).
SpanTagged(sp, err) ==
    IF ~err.nil
    THEN [sp EXCEPT !.code = TraceCode(err), !.error = TRUE, !.message = ErrorText(err)]
    ELSE sp

\* span.Finish: what the span holds by now is what the tracer gets.
SpanFinish(sp) ==
    [sp EXCEPT !.finished = @ + 1,
               !.sealed = IF sp.finished = 0 THEN <<sp.code, sp.error, sp.message>> ELSE @]

\* The exit of the interceptor: the tags when the next stage returned, and
\* the deferred Finish on every exit, a panic's included.
SpanExitNoDefer(sp, r) ==
    IF r.kind = "ret" THEN SpanFinish(SpanTagged(sp, r.err)) ELSE sp

SpanExit(sp, r) == SpanFinish(IF r.kind = "ret" THEN SpanTagged(sp, r.err) ELSE sp)

TraceReturn(err) == err

\* The metadata the caller's context holds, once the span context has been
\* injected: the injection writes into the copy made at line 78 (or into the
\* new metadata of line 76), never into the caller's.
InjectedInPlace(held, ctx) == IF ctx.out = <<>> THEN held ELSE MetadataInjector(ctx).out

InjectedIntoCopy(held, ctx) == held

Pre_trace ==
    /\ AtPre("trace")
    /\ span' = [span EXCEPT !.started = @ + 1]
    /\ callerOut' = InjectedIntoCopy(callerOut, ctxs[depth])
    /\ CallNext(MetadataInjector(StartSpanFromContext(ctxs[depth])))
    /\ UNCHANGED <<cfgVars, regVars, linkVars, callerVals, totals, bg, ncalls, now, side, origin, chain,
                   tmo, metrics, stdlog, lg, cpu, invoked, ret, logs, respHeader>>

Post_trace ==
    /\ AtPost("trace")
    /\ span' = SpanExit(span, ret)
    /\ ret' = IF ret.kind = "ret" THEN [ret EXCEPT !.err = TraceReturn(ret.err)] ELSE ret
    /\ ReturnUp
    /\ UNCHANGED <<cfgVars, regVars, linkVars, callerOut, callerVals, totals, bg, ncalls, now, side,
                   origin, chain, ctxs, tmo, metrics, stdlog, lg, cpu, invoked, logs,
                   respHeader>>

\* metricUnaryClientInterceptor
MetricLabel(err) == StatusText(GrpcToHTTPStatusCode(StatusCode(err)))

\* emetric's counter and histogram: an increment and an observation each
\* add one, whatever other calls do meanwhile.
CounterIncLost(t, label) == [t EXCEPT !.counter[label] = 1]

CounterInc(t, label) == [t EXCEPT !.counter[label] = @ + 1]

HistogramObserve(t) == [t EXCEPT !.histogram = @ + 1]

MetricReturn(err) == err

\* Before the invoker the interceptor takes the time (line 33) and records
\* nothing.
MetricPreCounts(m) == [m EXCEPT !.counter = Append(@, <<"target", "OK">>)]

MetricPre(m) == m

Pre_metric ==
    /\ AtPre("metric")
    /\ metrics' = MetricPre(metrics)
    /\ CallNext(ctxs[depth])
    /\ UNCHANGED <<cfgVars, regVars, linkVars, callerOut, callerVals, totals, bg, ncalls, now, side,
                   origin, chain, tmo, span, stdlog, lg, cpu, invoked, ret, logs, respHeader>>

\* The interceptor has incremented the counter for this call (line 35) and
\* has not yet observed the histogram (line 36).
MetricCounted == Len(metrics.counter) > Len(metrics.histogram)

\* Line 35: the invoker has returned, the counter is incremented.  The
\* interceptor stays where it is in the chain.
Count_metric ==
    /\ AtPost("metric")
    /\ ret.kind = "ret"
    /\ ~MetricCounted
    /\ metrics' = [metrics EXCEPT !.counter = Append(@, <<"target", MetricLabel(ret.err)>>)]
    /\ totals' = [totals EXCEPT !.client = CounterInc(@, MetricLabel(ret.err))]
    /\ UNCHANGED <<cfgVars, regVars, linkVars, callerOut, callerVals, bg, ncalls, now, side,
                   origin, chain, depth, phase, events, ctxs, tmo, span, stdlog, lg, cpu,
                   invoked, ret, logs, respHeader>>

\* Lines 36-37: the histogram is observed and the invoker's error returned.
\* A panic of the invoker passes through with nothing recorded.
Post_metric ==
    /\ AtPost("metric")
    /\ IF ret.kind = "ret"
       THEN /\ MetricCounted
            /\ metrics' = [metrics EXCEPT !.histogram = Append(@, "target")]
            /\ totals' = [totals EXCEPT !.client = HistogramObserve(@)]
            /\ ret' = [ret EXCEPT !.err = MetricReturn(ret.err)]
       ELSE UNCHANGED <<metrics, totals, ret>>
    /\ ReturnUp
    /\ UNCHANGED <<cfgVars, regVars, linkVars, callerOut, callerVals, bg, ncalls, now, side, origin, chain,
                   ctxs, tmo, span, stdlog, lg, cpu, invoked, logs, respHeader>>

\* timeoutUnaryClientInterceptor: a context without a deadline gets
\* now + timeout (context.WithTimeout); a caller's deadline is left alone.
TimeoutCtxAlways(ctx, t, timeout) ==
    IF ctx.deadline = NoDeadline \/ t + timeout < ctx.deadline
    THEN [ctx EXCEPT !.deadline = t + timeout] ELSE ctx

TimeoutCtx(ctx, t, timeout) ==
    IF ctx.deadline = NoDeadline THEN [ctx EXCEPT !.deadline = t + timeout] ELSE ctx

\* The deferred cancel (line 135): it runs on every exit of the interceptor.
CancelOnReturn(t, r) == IF t.made /\ r.kind = "ret" THEN [t EXCEPT !.cancels = @ + 1] ELSE t

CancelOnExit(t, r) == IF t.made THEN [t EXCEPT !.cancels = @ + 1] ELSE t

TimeoutReturn(err) == err

\* (A deadline enforcer that answers for the invoker once the caller's
\* deadline has passed: the code has no such branch, line 137 is reached on
\* every path.)
Pre_timeoutShortCircuit ==
    /\ AtPre("timeout")
    /\ tmo' = [entry |-> now, made |-> ctxs[depth].deadline = NoDeadline, cancels |-> 0]
    /\ IF ctxs[depth].deadline # NoDeadline /\ ctxs[depth].deadline <= now
       THEN /\ ret' = Returned(StatusErr(DeadlineExceeded, "deadline exceeded"), "nil")
            /\ ReturnUp
            /\ UNCHANGED ctxs
       ELSE /\ CallNext(TimeoutCtx(ctxs[depth], now, config.timeout))
            /\ UNCHANGED ret
    /\ UNCHANGED <<cfgVars, regVars, linkVars, callerOut, callerVals, totals, bg, ncalls, now, side,
                   origin, chain, span, metrics, stdlog, lg, cpu, invoked, logs, respHeader>>

Pre_timeout ==
    /\ AtPre("timeout")
    /\ tmo' = [entry |-> now, made |-> ctxs[depth].deadline = NoDeadline, cancels |-> 0]
    /\ CallNext(TimeoutCtx(ctxs[depth], now, config.timeout))
    /\ UNCHANGED <<cfgVars, regVars, linkVars, callerOut, callerVals, totals, bg, ncalls, now, side,
                   origin, chain, span, metrics, stdlog, lg, cpu, invoked, ret, logs,
                   respHeader>>

Post_timeout ==
    /\ AtPost("timeout")
    /\ tmo' = CancelOnExit(tmo, ret)
    /\ ret' = IF ret.kind = "ret" THEN [ret EXCEPT !.err = TimeoutReturn(ret.err)] ELSE ret
    /\ ReturnUp
    /\ UNCHANGED <<cfgVars, regVars, linkVars, callerOut, callerVals, totals, bg, ncalls, now, side,
                   origin, chain, ctxs, span, metrics, stdlog, lg, cpu, invoked, logs,
                   respHeader>>

\* customHeader: each captured key found in the incoming metadata is stored
\* in the context.
RECURSIVE CustomHeaderCtx(_, _)
CustomHeaderCtx(ctx, keys) ==
    IF keys = <<>> THEN ctx
    ELSE CustomHeaderCtx(IF GrpcHeaderValue(ctx, Head(keys)) # ""
                         THEN WithValue(ctx, Head(keys), GrpcHeaderValue(ctx, Head(keys)))
                         ELSE ctx,
                         Tail(keys))

\* The values the caller's context holds after the loop.
RECURSIVE CustomHeaderHeld(_, _, _)
CustomHeaderHeld(held, ctx, keys) ==
    IF keys = <<>> THEN held
    ELSE CustomHeaderHeld(IF GrpcHeaderValue(ctx, Head(keys)) # ""
                          THEN WithValueHeld(held, Head(keys), GrpcHeaderValue(ctx, Head(keys)))
                          ELSE held,
                          ctx, Tail(keys))

CustomHeaderReturn(err) == err

Pre_customHeader ==
    /\ AtPre("customHeader")
    /\ CallNext(CustomHeaderCtx(ctxs[depth], extraKeys))
    /\ callerVals' = CustomHeaderHeld(callerVals, ctxs[depth], extraKeys)
    /\ UNCHANGED <<cfgVars, regVars, linkVars, callerOut, totals, bg, ncalls, now, side,
                   origin, chain, tmo, span, metrics, stdlog, lg, cpu, invoked, ret, logs,
                   respHeader>>

Post_customHeader ==
    /\ AtPost("customHeader")
    /\ ret' = IF ret.kind = "ret" THEN [ret EXCEPT !.err = CustomHeaderReturn(ret.err)] ELSE ret
    /\ ReturnUp
    /\ UNCHANGED <<cfgVars, regVars, linkVars, callerOut, callerVals, totals, bg, ncalls, now, side,
                   origin, chain, ctxs, tmo, span, metrics, stdlog, lg, cpu, invoked, logs,
                   respHeader>>

\* defaultUnaryClientInterceptor: the application name, and the request for
\* the server's CPU usage when configured.
DefaultCtx(ctx, cfg) ==
    LET c1 == AppendToOutgoingContext(ctx, "app", "ego-app")
    IN  IF cfg.EnableCPUUsage THEN AppendToOutgoingContext(c1, "enable-cpu-usage", "true")
        ELSE c1

DefaultReturn(err) == err

Pre_default ==
    /\ AtPre("default")
    /\ CallNext(DefaultCtx(ctxs[depth], config))
    /\ UNCHANGED <<cfgVars, regVars, linkVars, callerOut, callerVals, totals, bg, ncalls, now, side,
                   origin, chain, tmo, span, metrics, stdlog, lg, cpu, invoked, ret, logs,
                   respHeader>>

Post_default ==
    /\ AtPost("default")
    /\ ret' = IF ret.kind = "ret" THEN [ret EXCEPT !.err = DefaultReturn(ret.err)] ELSE ret
    /\ ReturnUp
    /\ UNCHANGED <<cfgVars, regVars, linkVars, callerOut, callerVals, totals, bg, ncalls, now, side,
                   origin, chain, ctxs, tmo, span, metrics, stdlog, lg, cpu, invoked, logs,
                   respHeader>>

\* loggerUnaryClientInterceptor.  Its pre-work reads the registry once
\* (line 145), reads its length (line 146) and ranges over the list it read,
\* one key per step; its post-work builds the fields and emits the entries.
Entry(level, msg, fields) == [level |-> level, msg |-> msg, fields |-> fields]

\* The key the range loop handles at its i-th iteration: an element of the
\* list read at entry, whatever the registry holds by now.
RangeKeyLive(keys, reg, i) == IF i <= Len(reg) THEN reg[i] ELSE keys[i]

RangeKey(keys, reg, i) == keys[i]

\* One iteration of the loop over the keys (lines 148-154).
LoggerLoopBody(l, key) ==
    LET value == ContextValue(l.ctx, key)
    IN  IF value # ""
        THEN [l EXCEPT !.fields = Append(@, <<key, value>>),
                       !.ctx = AppendToOutgoingContext(@, key, value),
                       !.used = Append(@, key),
                       !.idx = @ + 1]
        ELSE [l EXCEPT !.used = Append(@, key), !.idx = @ + 1]

\* The fields appended after the invoker returned (lines 161-181): the
\* trace id of the interceptor's context follows the name when the
\* configuration asks for it and a global tracer is registered.
LoggerFields(cfg, err, cost, ctx) ==
    <<<<"type", "unary">>,
      <<"code", Itoa(GrpcToHTTPStatusCode(StatusCode(err)))>>,
      <<"ucode", Itoa(StatusCode(err))>>,
      <<"desc", StatusMessage(err)>>,
      <<"method", "/svc/Call">>,
      <<"cost", Itoa(cost)>>,
      <<"name", "target">>>>
    \o (IF cfg.EnableTraceInterceptor /\ IsGlobalTracerRegistered(cfg)
        THEN <<<<"tid", ExtractTraceID(ctx)>>>> ELSE <<>>)
    \o (IF cfg.EnableAccessInterceptorReq THEN <<<<"req", "req-json">>>> ELSE <<>>)
    \o (IF cfg.EnableAccessInterceptorRes THEN <<<<"res", "res-json">>>> ELSE <<>>)

\* The slow entry (lines 183-185).
IsSlow(threshold, cost) == threshold > 0 /\ cost > threshold

\* The access entry after the slow one (lines 187-204).
AccessEntriesStrict(cfg, err, fields) ==
    IF ~err.nil
    THEN IF GrpcToHTTPStatusCode(StatusCode(err)) > StatusInternalServerError
         THEN <<Entry("error", "access",
                      fields \o <<<<"event", "error">>, <<"error", ErrorText(err)>>>>)>>
         ELSE <<Entry("warn", "access",
                      fields \o <<<<"event", "error">>, <<"error", ErrorText(err)>>>>)>>
    ELSE IF cfg.EnableAccessInterceptor
         THEN <<Entry("info", "access", Append(fields, <<"event", "normal">>))>>
         ELSE <<>>

AccessEntries(cfg, err, fields) ==
    IF ~err.nil
    THEN IF GrpcToHTTPStatusCode(StatusCode(err)) >= StatusInternalServerError
         THEN <<Entry("error", "access",
                      fields \o <<<<"event", "error">>, <<"error", ErrorText(err)>>>>)>>
         ELSE <<Entry("warn", "access",
                      fields \o <<<<"event", "error">>, <<"error", ErrorText(err)>>>>)>>
    ELSE IF cfg.EnableAccessInterceptor
         THEN <<Entry("info", "access", Append(fields, <<"event", "normal">>))>>
         ELSE <<>>

LoggerEntries(cfg, err, cost, fields) ==
    (IF IsSlow(cfg.SlowLogThreshold, cost) THEN <<Entry("warn", "slow", fields)>> ELSE <<>>)
    \o AccessEntries(cfg, err, fields)

\* What the interceptor returns: err when it is not nil, nil otherwise.
LoggerReturn(err) == IF ~err.nil THEN err ELSE NilErr

Logger_enter ==
    /\ AtPre("logger")
    /\ lg.step = "enter"
    /\ lg' = [lg EXCEPT !.step = "len", !.beg = now, !.keys = CustomContextKeys,
                        !.ctx = ctxs[depth]]
    /\ UNCHANGED <<cfgVars, regVars, linkVars, callerOut, callerVals, totals, bg, ncalls, now, side,
                   origin, chain, depth, phase, ctxs, tmo, span, metrics, stdlog, cpu, invoked,
                   ret, logs, respHeader, events>>

Logger_alloc ==
    /\ AtPre("logger")
    /\ lg.step = "len"
    /\ lg' = [lg EXCEPT !.step = "loop", !.cap = 20 + CustomContextKeysLength,
                        !.fields = <<>>]
    /\ UNCHANGED <<cfgVars, regVars, linkVars, callerOut, callerVals, totals, bg, ncalls, now, side,
                   origin, chain, depth, phase, ctxs, tmo, span, metrics, stdlog, cpu, invoked,
                   ret, logs, respHeader, events>>

Logger_loop ==
    /\ AtPre("logger")
    /\ lg.step = "loop"
    /\ lg.idx <= Len(lg.keys)
    /\ lg' = LoggerLoopBody(lg, RangeKey(lg.keys, keyArr, lg.idx))
    /\ UNCHANGED <<cfgVars, regVars, linkVars, callerOut, callerVals, totals, bg, ncalls, now, side,
                   origin, chain, depth, phase, ctxs, tmo, span, metrics, stdlog, cpu, invoked,
                   ret, logs, respHeader, events>>

Logger_call ==
    /\ AtPre("logger")
    /\ lg.step = "loop"
    /\ lg.idx > Len(lg.keys)
    /\ lg' = [lg EXCEPT !.step = "called"]
    /\ CallNext(lg.ctx)
    /\ UNCHANGED <<cfgVars, regVars, linkVars, callerOut, callerVals, totals, bg, ncalls, now, side,
                   origin, chain, tmo, span, metrics, stdlog, cpu, invoked, ret, logs,
                   respHeader>>

Post_logger ==
    /\ AtPost("logger")
    /\ IF ret.kind = "ret"
       THEN LET cost == now - lg.beg
                fields == lg.fields \o LoggerFields(config, ret.err, cost, lg.ctx)
            IN  /\ lg' = [lg EXCEPT !.step = "done", !.fields = fields]
                /\ logs' = logs \o LoggerEntries(config, ret.err, cost, fields)
                /\ ret' = [ret EXCEPT !.err = LoggerReturn(ret.err)]
       ELSE UNCHANGED <<lg, logs, ret>>
    /\ ReturnUp
    /\ UNCHANGED <<cfgVars, regVars, linkVars, callerOut, callerVals, totals, bg, ncalls, now, side,
                   origin, chain, ctxs, tmo, span, metrics, stdlog, cpu, invoked, respHeader>>

\* What the real invocation of the current call may do and how long it may
\* take.  A call made by a caller of its own explores every outcome; a call
\* that continues another (a server reached over the wire, a handler's
\* outbound call) succeeds at once.
Invocations(all) == IF origin = "fresh" THEN all ELSE {o \in all : o.kind = "ret" /\ o.err.nil}

Delays == IF origin = "fresh" THEN 0..MaxDelay ELSE {0}

\* The real invocation of a client call: the carrier goes on the wire, time
\* passes, and the invoker returns or panics.
ClientOutcomes == {Returned(e, "reply") : e \in Errors}
                  \cup {Panicked(pv, 100) : pv \in {p \in PanicValues : p.t = "string"}}

Invoke_client ==
    /\ side = "client"
    /\ AtPre("invoke")
    /\ \E o \in Invocations(ClientOutcomes), d \in Delays :
          /\ invoked' = o
          /\ ret' = o
          /\ now' = now + d
    /\ wire' = Wire(ctxs[depth].out)
    /\ depth' = depth - 1
    /\ phase' = "post"
    /\ events' = Append(events, <<"invoke", "invoke">>)
    /\ UNCHANGED <<cfgVars, regVars, hctx, upstream, callerOut, callerVals, totals, bg, ncalls, side,
                   origin, chain, ctxs, tmo, span, metrics, stdlog, lg, cpu, logs, respHeader>>

\* defaultStreamClientInterceptor: a streaming client call gets the same
\* additions as a unary one (lines 119-122) and goes to the streamer.
ClientStreamChain == <<"defaultStream">>

StartClientStream ==
    /\ phase = "idle"
    /\ \E c \in CallerCalls : Begin("clientStream", "fresh", ClientStreamChain, c[1], c[2])
    /\ UNCHANGED <<cfgVars, regVars, linkVars, totals, bg>>

DefaultStreamReturn(err) == err

Pre_defaultStream ==
    /\ AtPre("defaultStream")
    /\ CallNext(DefaultCtx(ctxs[depth], config))
    /\ UNCHANGED <<cfgVars, regVars, linkVars, callerOut, callerVals, totals, bg, ncalls, now, side,
                   origin, chain, tmo, span, metrics, stdlog, lg, cpu, invoked, ret, logs,
                   respHeader>>

Post_defaultStream ==
    /\ AtPost("defaultStream")
    /\ ret' = IF ret.kind = "ret" THEN [ret EXCEPT !.err = DefaultStreamReturn(ret.err)]
              ELSE ret
    /\ ReturnUp
    /\ UNCHANGED <<cfgVars, regVars, linkVars, callerOut, callerVals, totals, bg, ncalls, now, side,
                   origin, chain, ctxs, tmo, span, metrics, stdlog, lg, cpu, invoked, logs,
                   respHeader>>

\* The streamer: the carrier goes on the wire, and the stream is opened or
\* the attempt fails.
StreamerOutcomes == {Returned(e, IF e.nil THEN "stream" ELSE "nil") : e \in Errors}

Invoke_streamer ==
    /\ side = "clientStream"
    /\ AtPre("invoke")
    /\ \E o \in StreamerOutcomes, d \in Delays :
          /\ invoked' = o
          /\ ret' = o
          /\ now' = now + d
    /\ wire' = Wire(ctxs[depth].out)
    /\ depth' = depth - 1
    /\ phase' = "post"
    /\ events' = Append(events, <<"invoke", "invoke">>)
    /\ UNCHANGED <<cfgVars, regVars, hctx, upstream, callerOut, callerVals, totals, bg, ncalls, side,
                   origin, chain, ctxs, tmo, span, metrics, stdlog, lg, cpu, logs, respHeader>>

\* ------------------------------------------------- server interceptors
\* A server call arrives, with or without an incoming carrier.
StartServer ==
    /\ phase = "idle"
    /\ \E sd \in {"server", "stream"}, carrier \in IncomingCarriers :
          Begin(sd, "fresh", (IF sd = "stream" THEN StreamServerChain ELSE ServerChain), ServerCtx(carrier[1], carrier[2]), now)
    /\ UNCHANGED <<cfgVars, regVars, linkVars, totals, bg>>

\* etrace.StartSpanFromContext with etrace.FromIncomingContext: the span
\* continues the trace the incoming carrier names, or starts one.
SrvStartSpanFromContext(ctx) ==
    [ctx EXCEPT !.tid = IF MDGet(ctx.inc, "uber-trace-id") = <<>> THEN "t1"
                        ELSE MDGet(ctx.inc, "uber-trace-id")[1]]

\* traceUnaryServerInterceptor: the span is tagged when the handler returned
\* an error, and finished by the deferred call on every exit.
SrvSpanExit(sp, r) == SpanFinish(IF r.kind = "ret" THEN SpanTagged(sp, r.err) ELSE sp)

SrvTraceReturn(err) == err

Pre_srvTrace ==
    /\ AtPre("srvTrace")
    /\ span' = [span EXCEPT !.started = @ + 1]
    /\ CallNext(SrvStartSpanFromContext(ctxs[depth]))
    /\ UNCHANGED <<cfgVars, regVars, linkVars, callerOut, callerVals, totals, bg, ncalls, now,
                   side, origin, chain, tmo, metrics, stdlog, lg, cpu, invoked, ret, logs,
                   respHeader>>

Post_srvTrace ==
    /\ AtPost("srvTrace")
    /\ span' = SrvSpanExit(span, ret)
    /\ ret' = IF ret.kind = "ret" THEN [ret EXCEPT !.err = SrvTraceReturn(ret.err)] ELSE ret
    /\ ReturnUp
    /\ UNCHANGED <<cfgVars, regVars, linkVars, callerOut, callerVals, totals, bg, ncalls, now,
                   side, origin, chain, ctxs, tmo, metrics, stdlog, lg, cpu, invoked, logs,
                   respHeader>>

\* traceStreamServerInterceptor: the handler gets the stream with the span's
\* context; the span is finished by the deferred call and gets no tag.
SrvStreamSpanExit(sp, r) == SpanFinish(sp)

Pre_srvTraceStream ==
    /\ AtPre("srvTraceStream")
    /\ span' = [span EXCEPT !.started = @ + 1]
    /\ CallNext(SrvStartSpanFromContext(ctxs[depth]))
    /\ UNCHANGED <<cfgVars, regVars, linkVars, callerOut, callerVals, totals, bg, ncalls, now,
                   side, origin, chain, tmo, metrics, stdlog, lg, cpu, invoked, ret, logs,
                   respHeader>>

Post_srvTraceStream ==
    /\ AtPost("srvTraceStream")
    /\ span' = SrvStreamSpanExit(span, ret)
    /\ ReturnUp
    /\ UNCHANGED <<cfgVars, regVars, linkVars, callerOut, callerVals, totals, bg, ncalls, now,
                   side, origin, chain, ctxs, tmo, metrics, stdlog, lg, cpu, invoked, ret, logs,
                   respHeader>>

\* extractApp: the "app" values of the incoming metadata, joined; "unknown"
\* when the context has no incoming metadata.
ExtractApp(ctx) == IF ctx.incOk THEN Join(MDGet(ctx.inc, "app"), ",") ELSE "unknown"

\* emetric.ServerHandleCounter.Inc / emetric.ServerHandleHistogram.Observe
SrvCounterInc(t, label) == [t EXCEPT !.counter[label] = @ + 1]

SrvHistogramObserve(t) == [t EXCEPT !.histogram = @ + 1]

SrvMetricReturn(err) == err

\* The interceptor has observed the histogram for this call and has not yet
\* incremented the counter.
SrvObserved == Len(metrics.histogram) > Len(metrics.counter)

\* prometheusUnaryServerInterceptor ("srvPrometheus") and
\* prometheusStreamServerInterceptor ("srvPrometheusStream"): the time is
\* taken and the handler called; when it has returned the histogram is
\* observed under the peer, then the counter incremented under the peer and
\* the outcome, then the handler's result returned.
Pre_srvPrometheus(name) ==
    /\ AtPre(name)
    /\ CallNext(ctxs[depth])
    /\ UNCHANGED <<cfgVars, regVars, linkVars, callerOut, callerVals, totals, bg, ncalls, now,
                   side, origin, chain, tmo, span, metrics, stdlog, lg, cpu, invoked, ret, logs,
                   respHeader>>

Observe_srvPrometheus(name) ==
    /\ AtPost(name)
    /\ ret.kind = "ret"
    /\ ~SrvObserved
    /\ metrics' = [metrics EXCEPT !.histogram = Append(@, ExtractApp(ctxs[depth]))]
    /\ totals' = [totals EXCEPT !.server = SrvHistogramObserve(@)]
    /\ UNCHANGED <<cfgVars, regVars, linkVars, callerOut, callerVals, bg, ncalls, now, side,
                   origin, chain, depth, phase, events, ctxs, tmo, span, stdlog, lg, cpu,
                   invoked, ret, logs, respHeader>>

Post_srvPrometheus(name) ==
    /\ AtPost(name)
    /\ IF ret.kind = "ret"
       THEN /\ SrvObserved
            /\ metrics' = [metrics EXCEPT !.counter =
                              Append(@, <<ExtractApp(ctxs[depth]), MetricLabel(ret.err)>>)]
            /\ totals' = [totals EXCEPT !.server = SrvCounterInc(@, MetricLabel(ret.err))]
            /\ ret' = [ret EXCEPT !.err = SrvMetricReturn(ret.err)]
       ELSE UNCHANGED <<metrics, totals, ret>>
    /\ ReturnUp
    /\ UNCHANGED <<cfgVars, regVars, linkVars, callerOut, callerVals, bg, ncalls, now, side,
                   origin, chain, ctxs, tmo, span, stdlog, lg, cpu, invoked, logs, respHeader>>

\* The default interceptors of the server: the panic guard and the access
\* log; on a unary call also the header extraction and the CPU usage header.
\* One iteration of the unary interceptor's loop over the keys: a header
\* found in the incoming carrier is written into the context.
SrvLoopBody(l, key) ==
    LET value == GrpcHeaderValue(l.ctx, key)
    IN  IF value # ""
        THEN [l EXCEPT !.ctx = WithValue(@, key, value), !.used = Append(@, key),
                       !.idx = @ + 1]
        ELSE [l EXCEPT !.used = Append(@, key), !.idx = @ + 1]

\* The values the caller's context holds after that iteration.
SrvLoopHeld(held, l, key) ==
    LET value == GrpcHeaderValue(l.ctx, key)
    IN  IF value # "" THEN WithValueHeld(held, key, value) ELSE held

\* enableCPUUsage: the flag header reads "true".
EnableCPUUsage(ctx) == GrpcHeaderValue(ctx, "enable-cpu-usage") = "true"

\* getPeerName
GetPeerName(ctx) == GrpcHeaderValue(ctx, "app")

\* The part of an address before its first colon, "" for one without colon.
RECURSIVE BeforeColon(_, _)
BeforeColon(addr, i) ==
    IF i > Len(addr) THEN ""
    ELSE IF SubSeq(addr, i, i) = ":" THEN SubSeq(addr, 1, i - 1)
    ELSE BeforeColon(addr, i + 1)

\* getPeerIP: the client-ip header, else the host of the peer's address.
GetPeerIP(ctx) ==
    IF GrpcHeaderValue(ctx, "client-ip") # "" THEN GrpcHeaderValue(ctx, "client-ip")
    ELSE IF ctx.peer = "" THEN ""
    ELSE BeforeColon(ctx.peer, 1)

\* The header the server attaches for a sample: none for a usage of 0.
CpuHeaderAlways(asked, sample) ==
    IF asked THEN <<<<"cpu-usage", Itoa(sample.usage)>>>> ELSE <<>>

CpuHeader(asked, sample) ==
    IF asked /\ sample.usage > 0 THEN <<<<"cpu-usage", Itoa(sample.usage)>>>> ELSE <<>>

\* The error grpc.SetHeader returns when it cannot attach the header.
SetHeaderErr == StatusErr(Internal, "grpc: failed to fetch the stream from the context")

\* The entry logged for it.
SetHeaderEntry(err) == Entry("error", "set header error", <<<<"error", ErrorText(err)>>>>)

\* The %v rendering of a panic value that is not an error.
Render(pv) == IF pv.t = "int" THEN Itoa(pv.n) ELSE pv.s

\* The panic guard: a recovered error value is the call's error, any other
\* value is formatted into one; the response stays nil.
RecoverErr(pv) == IF pv.t = "error" THEN pv.e ELSE PlainErr(Render(pv))

\* return handler(ctx, req): the handler's results become the named results,
\* whatever SetHeader left in err.
SrvReturnKeepsErr(held, r) ==
    IF held.nil \/ r.kind # "ret" THEN r ELSE [r EXCEPT !.err = held]

SrvReturn(held, r) == r

GuardedRaise(r) == r

Guarded(r) == IF r.kind = "panic" THEN Returned(RecoverErr(r.pv), "nil") ELSE r

SrvEvent(r) == IF r.kind = "panic" THEN "recover" ELSE "normal"

\* The stack field of a recovered panic: at most the buffer's size.
StackField(r) ==
    IF r.kind = "panic"
    THEN <<<<"stack", Itoa(IF r.stack < StackBufSize THEN r.stack ELSE StackBufSize)>>>>
    ELSE <<>>

SrvIsSlowNoFloor(threshold, cost) == threshold < cost

SrvIsSlow(threshold, cost) == threshold > 0 /\ threshold < cost

RECURSIVE KeyFields(_, _)
KeyFields(ctx, keys) ==
    IF keys = <<>> THEN <<>>
    ELSE (IF ContextValue(ctx, Head(keys)) # ""
          THEN <<<<Head(keys), ContextValue(ctx, Head(keys))>>>> ELSE <<>>)
         \o KeyFields(ctx, Tail(keys))

\* The request field: the payload, and the incoming metadata when there is any.
ReqField(ctx) == <<"req", IF ctx.incOk THEN "payload,metadata" ELSE "payload">>

\* The fields of a unary call that is logged.
SrvFields(cfg, r, err, cost, ctx, keys) ==
    StackField(r)
    \o <<<<"type", "unary">>,
         <<"code", Itoa(GrpcToHTTPStatusCode(StatusCode(err)))>>,
         <<"ucode", Itoa(StatusCode(err))>>,
         <<"desc", StatusMessage(err)>>,
         <<"event", SrvEvent(r)>>,
         <<"method", "/svc/Call">>,
         <<"cost", Itoa(cost)>>,
         <<"peerName", GetPeerName(ctx)>>,
         <<"peerIp", GetPeerIP(ctx)>>>>
    \o KeyFields(ctx, keys)
    \o (IF cfg.EnableTraceInterceptor /\ IsGlobalTracerRegistered(cfg)
        THEN <<<<"tid", ExtractTraceID(ctx)>>>> ELSE <<>>)
    \o (IF cfg.EnableAccessInterceptorReq THEN <<ReqField(ctx)>> ELSE <<>>)
    \o (IF cfg.EnableAccessInterceptorRes THEN <<<<"res", "payload">>>> ELSE <<>>)

\* The access entry of a unary call, after the slow one.
SrvAccessEntries(cfg, err, fields) ==
    IF ~err.nil
    THEN IF GrpcToHTTPStatusCode(StatusCode(err)) >= StatusInternalServerError
         THEN <<Entry("error", "access", Append(fields, <<"error", ErrorText(err)>>))>>
         ELSE <<Entry("warn", "access", Append(fields, <<"error", ErrorText(err)>>))>>
    ELSE IF cfg.EnableAccessInterceptor
         THEN <<Entry("info", "access", fields)>>
         ELSE <<>>

\* What the deferred function of a unary call logs: nothing, and no field
\* built, for a call without error that is not slow when access logging is
\* off; else the slow entry, then the access entry.
SrvQuiet(cfg, err, cost) ==
    err.nil /\ ~cfg.EnableAccessInterceptor /\ ~SrvIsSlow(cfg.SlowLogThreshold, cost)

SrvEntries(cfg, err, cost, fields) ==
    IF SrvQuiet(cfg, err, cost) THEN <<>>
    ELSE (IF SrvIsSlow(cfg.SlowLogThreshold, cost)
          THEN <<Entry("warn", "slow", fields)>> ELSE <<>>)
         \o SrvAccessEntries(cfg, err, fields)

\* The fields of a stream call.
SrvStreamFields(r, err, cost, ctx) ==
    StackField(r)
    \o <<<<"type", "stream">>,
         <<"event", SrvEvent(r)>>,
         <<"code", Itoa(GrpcToHTTPStatusCode(StatusCode(err)))>>,
         <<"ucode", Itoa(StatusCode(err))>>,
         <<"desc", StatusMessage(err)>>,
         <<"cost", Itoa(cost)>>,
         <<"peerName", GetPeerName(ctx)>>,
         <<"peerIp", GetPeerIP(ctx)>>>>

\* The access entry of a stream call: the info entry of a call without
\* error does not depend on the configuration.
SrvStreamAccessEntries(err, fields) ==
    IF ~err.nil
    THEN IF GrpcToHTTPStatusCode(StatusCode(err)) >= StatusInternalServerError
         THEN <<Entry("error", "access", Append(fields, <<"error", ErrorText(err)>>))>>
         ELSE <<Entry("warn", "access", Append(fields, <<"error", ErrorText(err)>>))>>
    ELSE <<Entry("info", "access", fields)>>

SrvStreamEntries(cfg, err, cost, fields) ==
    (IF SrvIsSlow(cfg.SlowLogThreshold, cost) THEN <<Entry("warn", "slow", fields)>> ELSE <<>>)
    \o SrvStreamAccessEntries(err, fields)

\* defaultUnaryServerInterceptor.  The time is taken and the keys read.
Srv_enter ==
    /\ AtPre("srvDefault")
    /\ lg.step = "enter"
    /\ lg' = [lg EXCEPT !.step = "len", !.beg = now, !.keys = CustomContextKeys,
                        !.ctx = ctxs[depth]]
    /\ UNCHANGED <<cfgVars, regVars, linkVars, callerOut, callerVals, totals, bg, ncalls, now,
                   side, origin, chain, depth, phase, events, ctxs, tmo, span, metrics, stdlog,
                   cpu, invoked, ret, logs, respHeader>>

\* The length is read, for the capacity of the fields.
Srv_alloc ==
    /\ AtPre("srvDefault")
    /\ lg.step = "len"
    /\ lg' = [lg EXCEPT !.step = "loop", !.cap = 20 + CustomContextKeysLength,
                        !.fields = <<>>]
    /\ UNCHANGED <<cfgVars, regVars, linkVars, callerOut, callerVals, totals, bg, ncalls, now,
                   side, origin, chain, depth, phase, events, ctxs, tmo, span, metrics, stdlog,
                   cpu, invoked, ret, logs, respHeader>>

Srv_loop ==
    /\ AtPre("srvDefault")
    /\ lg.step = "loop"
    /\ lg.idx <= Len(lg.keys)
    /\ lg' = SrvLoopBody(lg, RangeKey(lg.keys, keyArr, lg.idx))
    /\ callerVals' = SrvLoopHeld(callerVals, lg, RangeKey(lg.keys, keyArr, lg.idx))
    /\ UNCHANGED <<cfgVars, regVars, linkVars, callerOut, totals, bg, ncalls, now, side, origin,
                   chain, depth, phase, events, ctxs, tmo, span, metrics, stdlog, cpu, invoked,
                   ret, logs, respHeader>>

\* The CPU usage header: asked for, the usage is sampled; a positive usage
\* is attached to the response; SetHeader's result is assigned to the named
\* err and, when it is an error, logged.
Srv_cpu ==
    /\ AtPre("srvDefault")
    /\ lg.step = "loop"
    /\ lg.idx > Len(lg.keys)
    /\ LET asked == EnableCPUUsage(lg.ctx)
       IN  \E sample \in (IF asked THEN CpuSamples ELSE UnreadSamples),
              setHeader \in {"ok", "failed"} :
              LET header == CpuHeader(asked, sample)
              IN  /\ header = <<>> => setHeader = "ok"
                  /\ cpu' = [asked |-> asked, ok |-> sample.ok, usage |-> sample.usage,
                             set |-> IF header = <<>> THEN "none" ELSE setHeader]
                  /\ IF setHeader = "ok"
                     THEN /\ respHeader' = respHeader \o header
                          /\ lg' = [lg EXCEPT !.step = "cpu", !.err = NilErr]
                          /\ UNCHANGED logs
                     ELSE /\ lg' = [lg EXCEPT !.step = "cpu", !.err = SetHeaderErr]
                          /\ logs' = Append(logs, SetHeaderEntry(SetHeaderErr))
                          /\ UNCHANGED respHeader
    /\ UNCHANGED <<cfgVars, regVars, linkVars, callerOut, callerVals, totals, bg, ncalls, now,
                   side, origin, chain, depth, phase, events, ctxs, tmo, span, metrics, stdlog,
                   invoked, ret>>

\* The handler is called with the context the loop left.
Srv_call ==
    /\ AtPre("srvDefault")
    /\ lg.step = "cpu"
    /\ lg' = [lg EXCEPT !.step = "called"]
    /\ CallNext(lg.ctx)
    /\ UNCHANGED <<cfgVars, regVars, linkVars, callerOut, callerVals, totals, bg, ncalls, now,
                   side, origin, chain, tmo, span, metrics, stdlog, cpu, invoked, ret, logs,
                   respHeader>>

\* The deferred function: the handler's results are the named results, or a
\* recovered panic is turned into the named err, whatever SetHeader left in
\* it; then the entries.
Post_srvDefault ==
    /\ AtPost("srvDefault")
    /\ LET g == Guarded(SrvReturn(lg.err, ret))
           cost == now - lg.beg
           fields == IF SrvQuiet(config, g.err, cost) THEN StackField(ret)
                     ELSE SrvFields(config, ret, g.err, cost, lg.ctx, lg.keys)
       IN  IF g.kind = "ret"
           THEN /\ lg' = [lg EXCEPT !.step = "done", !.fields = fields, !.err = g.err]
                /\ logs' = logs \o SrvEntries(config, g.err, cost, fields)
                /\ ret' = g
           ELSE UNCHANGED <<lg, logs, ret>>
    /\ ReturnUp
    /\ UNCHANGED <<cfgVars, regVars, linkVars, callerOut, callerVals, totals, bg, ncalls, now,
                   side, origin, chain, ctxs, tmo, span, metrics, stdlog, cpu, invoked,
                   respHeader>>

\* defaultStreamServerInterceptor: the time is taken and the handler called
\* with the stream as it came.
Pre_srvDefaultStream ==
    /\ AtPre("srvDefaultStream")
    /\ lg' = [lg EXCEPT !.step = "called", !.beg = now, !.fields = <<>>, !.ctx = ctxs[depth]]
    /\ CallNext(ctxs[depth])
    /\ UNCHANGED <<cfgVars, regVars, linkVars, callerOut, callerVals, totals, bg, ncalls, now,
                   side, origin, chain, tmo, span, metrics, stdlog, cpu, invoked, ret, logs,
                   respHeader>>

Post_srvDefaultStream ==
    /\ AtPost("srvDefaultStream")
    /\ LET g == Guarded(ret)
           cost == now - lg.beg
           fields == SrvStreamFields(ret, g.err, cost, ctxs[depth])
       IN  IF g.kind = "ret"
           THEN /\ lg' = [lg EXCEPT !.step = "done", !.fields = fields, !.err = g.err]
                /\ logs' = logs \o SrvStreamEntries(config, g.err, cost, fields)
                /\ ret' = g
           ELSE UNCHANGED <<lg, logs, ret>>
    /\ ReturnUp
    /\ UNCHANGED <<cfgVars, regVars, linkVars, callerOut, callerVals, totals, bg, ncalls, now,
                   side, origin, chain, ctxs, tmo, span, metrics, stdlog, cpu, invoked,
                   respHeader>>

\* The handler runs: time passes, and it returns or panics.
Invoke_server ==
    /\ side \in {"server", "stream"}
    /\ AtPre("invoke")
    /\ \E o \in Invocations(IF side = "server" THEN Outcomes ELSE StreamOutcomes),
          d \in Delays :
          /\ invoked' = o
          /\ ret' = o
          /\ now' = now + d
    /\ hctx' = ctxs[depth]
    /\ upstream' = [carrier |-> ctxs[1].inc,
                    keys |-> IF side = "server" THEN lg.keys ELSE CustomContextKeys,
                    from |-> origin, side |-> side]
    /\ depth' = depth - 1
    /\ phase' = "post"
    /\ events' = Append(events, <<"invoke", "invoke">>)
    /\ UNCHANGED <<cfgVars, regVars, wire, callerOut, callerVals, totals, bg, ncalls, side,
                   origin, chain, ctxs, tmo, span, metrics, stdlog, lg, cpu, logs, respHeader>>

\* -------------------------------------------------------- specification
Layers ==
    \/ Pre_debug \/ Post_debug
    \/ Pre_trace \/ Post_trace
    \/ Pre_metric \/ Count_metric \/ Post_metric
    \/ Pre_timeout \/ Post_timeout
    \/ Pre_customHeader \/ Post_customHeader
    \/ Pre_default \/ Post_default
    \/ Logger_enter \/ Logger_alloc \/ Logger_loop \/ Logger_call \/ Post_logger
    \/ Invoke_client
    \/ Pre_srvTrace \/ Post_srvTrace
    \/ Pre_srvTraceStream \/ Post_srvTraceStream
    \/ Pre_srvPrometheus("srvPrometheus") \/ Pre_srvPrometheus("srvPrometheusStream")
    \/ Observe_srvPrometheus("srvPrometheus") \/ Observe_srvPrometheus("srvPrometheusStream")
    \/ Post_srvPrometheus("srvPrometheus") \/ Post_srvPrometheus("srvPrometheusStream")
    \/ Srv_enter \/ Srv_alloc \/ Srv_loop \/ Srv_cpu \/ Srv_call \/ Post_srvDefault
    \/ Pre_srvDefaultStream \/ Post_srvDefaultStream
    \/ Invoke_server

Next ==
    \/ \E arr \in RegistryLists : Set(arr)
    \/ StartClient
    \/ StartServer
    \/ Layers

Spec == Init /\ [][Next]_vars

\* Chained calls: a client call, the server call it reaches, the outbound
\* client call of that server's handler.
TripConfigs == {Cfg(FALSE, 0, x, FALSE, TRUE) : x \in BOOLEAN}

InitTrip == Init /\ config \in TripConfigs

NextTrip ==
    \/ \E arr \in RegistryLists : Set(arr)
    \/ StartClient
    \/ StartServerFromWire
    \/ StartClientFromHandler
    \/ Layers

SpecTrip == InitTrip /\ [][NextTrip]_vars

\* Another call runs through a metrics interceptor while the call above is
\* under way: a client call through metricUnaryClientInterceptor (counter,
\* then histogram) or a server call through prometheusUnaryServerInterceptor
\* (histogram, then counter), each step at any moment of the other call.
mainVars == <<cfgVars, regVars, linkVars, callerOut, callerVals, ncalls, now, side, origin,
              chain, depth, phase, ctxs, tmo, span, metrics, stdlog, lg, cpu, invoked, ret,
              logs, respHeader, events>>

Bg_call ==
    /\ bg.pc = "idle"
    /\ \E sd \in {"client", "server"} : bg' = [bg EXCEPT !.pc = "running", !.side = sd]
    /\ UNCHANGED <<mainVars, totals>>

Bg_return ==
    /\ bg.pc = "running"
    /\ \E e \in Errors : bg' = [bg EXCEPT !.pc = "returned", !.err = e]
    /\ UNCHANGED <<mainVars, totals>>

Bg_count ==
    /\ bg.side = "client"
    /\ bg.pc = "returned"
    /\ totals' = [totals EXCEPT !.client = CounterInc(@, MetricLabel(bg.err))]
    /\ bg' = [bg EXCEPT !.pc = "counted"]
    /\ UNCHANGED mainVars

Bg_observe ==
    /\ bg.side = "client"
    /\ bg.pc = "counted"
    /\ totals' = [totals EXCEPT !.client = HistogramObserve(@)]
    /\ bg' = [bg EXCEPT !.pc = "done"]
    /\ UNCHANGED mainVars

Bg_srvObserve ==
    /\ bg.side = "server"
    /\ bg.pc = "returned"
    /\ totals' = [totals EXCEPT !.server = SrvHistogramObserve(@)]
    /\ bg' = [bg EXCEPT !.pc = "observed"]
    /\ UNCHANGED mainVars

Bg_srvCount ==
    /\ bg.side = "server"
    /\ bg.pc = "observed"
    /\ totals' = [totals EXCEPT !.server = SrvCounterInc(@, MetricLabel(bg.err))]
    /\ bg' = [bg EXCEPT !.pc = "done"]
    /\ UNCHANGED mainVars

\* Two calls at a time, under one configuration.
MetricConfigs == {Cfg(TRUE, 1, TRUE, TRUE, TRUE)}

InitMetrics == Init /\ config \in MetricConfigs

NextMetrics ==
    \/ StartClient
    \/ StartServer
    \/ Layers
    \/ Bg_call \/ Bg_return \/ Bg_count \/ Bg_observe \/ Bg_srvObserve \/ Bg_srvCount

SpecMetrics == InitMetrics /\ [][NextMetrics]_vars

\* Unary calls and streaming client calls.
NextCarrier ==
    \/ Next
    \/ StartClientStream
    \/ Pre_defaultStream \/ Post_defaultStream
    \/ Invoke_streamer

SpecCarrier == Init /\ [][NextCarrier]_vars

\* --------------------------------------------------------------- claims
Range(q) == {q[i] : i \in 1..Len(q)}

IsPrefix(a, b) == Len(a) <= Len(b) /\ SubSeq(b, 1, Len(a)) = a

\* The call has returned to its caller (a panic may also have reached it).
Finished == phase = "done"

Returns == Finished /\ ret.kind = "ret"

ServerSide == side \in {"server", "stream"}

\* The time the access logger measured, and whether that is slow.
Elapsed == now - lg.beg

WasSlow == config.SlowLogThreshold > 0 /\ Elapsed > config.SlowLogThreshold

WasFailure == invoked.kind = "panic" \/ ~invoked.err.nil

SlowEntries == {i \in 1..Len(logs) : logs[i].msg = "slow"}

AccessLogEntries == {i \in 1..Len(logs) : logs[i].msg = "access"}

\* The entries the access logger wrote for the call when it had ended.
CallEntries == SlowEntries \cup AccessLogEntries

\* The entry of a cpu-usage header that could not be attached.
SetHeaderEntries == {i \in 1..Len(logs) : logs[i].msg = "set header error"}

\* The header of the incoming carrier under a name, as the tools read it.
HeaderOf(ctx, k) == Join(MDGet(ctx.inc, k), ";")

TraceNames == {"trace", "srvTrace", "srvTraceStream"}

MetricNames == {"metric", "srvPrometheus", "srvPrometheusStream"}

LoggerNames == {"logger", "srvDefault", "srvDefaultStream"}

\* C1: a client call for which the emission predicate holds (it failed, or
\* it was slow, or access logging is enabled) has exactly one log entry.
\* (The claim, for loggerUnaryClientInterceptor.)
C1_ExactlyOneEntry ==
    (Returns /\ side = "client"
       /\ (WasFailure \/ WasSlow \/ config.EnableAccessInterceptor))
    => Len(logs) = 1

\* C2: a call that succeeds, is not slow and runs with access logging
\* disabled has no log entry at all, on the client unary, the server unary
\* and the server stream path.
C2_QuietSuccessLogsNothing ==
    (Returns /\ ~WasFailure /\ ~WasSlow /\ ~config.EnableAccessInterceptor)
    => logs = <<>>

C4_PanicLoggedAtError ==
    (Finished /\ ServerSide /\ invoked.kind = "panic")
    => /\ AccessLogEntries # {}
       /\ \A i \in AccessLogEntries : logs[i].level = "error"

\* C5: the invoker of a client call sees the deadline entry time + default
\* timeout when the caller's context had none, and the caller's deadline,
\* earlier or later, when it had one.
TimeoutAt == CHOOSE i \in 1..Len(chain) : chain[i] = "timeout"

C5_Deadline ==
    (side = "client" /\ invoked.kind # "none")
    => LET caller == ctxs[TimeoutAt].deadline
           seen == ctxs[Len(chain) + 1].deadline
       IN  /\ caller = NoDeadline => seen = tmo.entry + config.timeout
           /\ caller # NoDeadline => seen = caller

C5_Witness ==
    /\ side = "client" /\ invoked.kind # "none"
    /\ ctxs[TimeoutAt].deadline = NoDeadline
    /\ tmo.entry = 1
    /\ ctxs[Len(chain) + 1].deadline = 1 + DefaultTimeout

\* C6: every interceptor returns the error and response the next stage
\* returned, also when attaching the cpu-usage header failed; a handler
\* panic alone is turned into an error, by the server guard.
C6_ErrorPassedThrough ==
    /\ (phase \in {"post", "done"} /\ invoked.kind = "ret")
       => /\ ret.kind = "ret"
          /\ ret.err = invoked.err
          /\ ret.res = invoked.res
    /\ (Finished /\ invoked.kind = "panic" /\ ServerSide)
       => ret.kind = "ret" /\ ~ret.err.nil

C6_Witness ==
    /\ Finished /\ side = "server"
    /\ cpu.set = "failed"
    /\ SetHeaderEntries # {}
    /\ invoked.kind = "ret" /\ invoked.err = NilErr /\ invoked.res = "reply"
    /\ ret.err = NilErr /\ ret.res = "reply"

\* C7: with registry updates running during calls, the keys a call reads
\* and works through are one whole list the registry held: the list read is
\* one that was set, and the keys handled so far are its beginning.
KeysRead == side \in {"client", "server"} /\ lg.step # "enter"

C7_WholeSnapshot ==
    KeysRead
    => /\ lg.keys \in setLog
       /\ IsPrefix(lg.used, lg.keys)
       /\ \E whole \in setLog : IsPrefix(lg.used, whole)

C7_Witness ==
    /\ side = "server"
    /\ lg.keys = <<"X-Uid", "x-rid">>
    /\ lg.used = <<"X-Uid", "x-rid">>
    /\ lg.cap = 20
    /\ keyArr = <<>>

\* C8: a value the client's outgoing carrier holds under a registered name
\* is the value of the server handler's context under that name, and the
\* outbound call the handler makes with that context carries it again.
C8_RoundTrip ==
    \A k \in Names :
       LET sent == MDGet(upstream.carrier, k)
       IN  (upstream.from = "wire" /\ Len(sent) = 1 /\ sent[1] # ""
              /\ k \in Range(upstream.keys))
           => /\ Value(hctx, k) = sent[1]
              /\ (side = "client" /\ origin = "handler" /\ invoked.kind # "none"
                    /\ k \in Range(lg.keys))
                 => sent[1] \in Range(MDGet(wire, k))

\* C9: on a unary server call, with the request flag and a usage of 0 or no
\* sample no cpu-usage header is attached; with the flag and a usage u > 0
\* one is attached whose value is u; without the flag none is attached.
\* (The claim as stated.)
FlagSent == <<"enable-cpu-usage", "true">> \in Range(ctxs[1].inc)

CpuStepDone == side = "server" /\ lg.step \in {"cpu", "called", "done"}

C9_CpuHeaderAsClaimed ==
    CpuStepDone
    => LET h == MDGet(respHeader, "cpu-usage")
       IN  /\ (FlagSent /\ cpu.usage = 0) => h = <<>>
           /\ (FlagSent /\ cpu.usage > 0) => (Len(h) = 1 /\ Atoi(h[1]) = cpu.usage)
           /\ ~FlagSent => h = <<>>

\* C9, amended: the flag is there when the enable-cpu-usage header of the
\* incoming carrier reads "true"; with it and a usage u > 0 the header is
\* attached with the value u when the transport accepts it, and when the
\* transport refuses it none is attached and the refusal is logged; with it
\* and a usage of 0 or no sample, and without it, none is attached.
FlagReads == HeaderOf(ctxs[1], "enable-cpu-usage") = "true"

C9_CpuHeader ==
    CpuStepDone
    => LET h == MDGet(respHeader, "cpu-usage")
       IN  /\ (FlagReads /\ cpu.usage = 0) => h = <<>>
           /\ (FlagReads /\ cpu.usage > 0 /\ cpu.set = "ok")
              => (Len(h) = 1 /\ Atoi(h[1]) = cpu.usage /\ SetHeaderEntries = {})
           /\ (FlagReads /\ cpu.usage > 0 /\ cpu.set # "ok")
              => (h = <<>> /\ cpu.set = "failed" /\ Cardinality(SetHeaderEntries) = 1)
           /\ ~FlagReads => (h = <<>> /\ SetHeaderEntries = {})

C9_Witness ==
    /\ CpuStepDone /\ FlagSent /\ FlagReads
    /\ cpu.usage = MaxUsage /\ cpu.set = "ok"
    /\ Atoi(MDGet(respHeader, "cpu-usage")[1]) = MaxUsage

\* C10: a call that took longer than a positive SlowLogThreshold has a
\* warning entry "slow", whatever its outcome; with a threshold <= 0 or a
\* time within the threshold there is no "slow" entry.
C10_SlowEntry ==
    Returns
    => /\ WasSlow => Cardinality(SlowEntries) = 1
       /\ ~WasSlow => SlowEntries = {}
       /\ \A i \in SlowEntries : logs[i].level = "warn"

C10_Witness ==
    /\ Returns /\ side = "server"
    /\ WasSlow
    /\ invoked.kind = "panic"
    /\ \E i \in SlowEntries : logs[i].level = "warn"

\* C11: a call that ends with an error has one access entry, at error
\* severity when the normalized status is >= 500 and at warning severity
\* otherwise; a call that succeeds has no entry at error severity, and with
\* access logging enabled it has an info entry "access" tagged "normal".
\* (The claim as stated.)
NormalizedStatus(err) ==
    GrpcToHTTPStatusCode(IF err.nil THEN OK ELSE IF err.st THEN err.code ELSE Unknown)

C11_SeverityAsClaimed ==
    Returns
    => /\ ~ret.err.nil
          => /\ Cardinality(AccessLogEntries) = 1
             /\ \A i \in AccessLogEntries :
                   logs[i].level = IF NormalizedStatus(ret.err) >= 500 THEN "error" ELSE "warn"
       /\ ret.err.nil
          => /\ \A i \in 1..Len(logs) : logs[i].level # "error"
             /\ config.EnableAccessInterceptor
                => \E i \in AccessLogEntries :
                      /\ logs[i].level = "info"
                      /\ <<"event", "normal">> \in Range(logs[i].fields)

\* C11, amended: a call that succeeds has no access entry and no slow entry
\* at error severity; the one entry at error severity it can have is the
\* "set header error" entry of a unary server call whose cpu-usage header
\* could not be attached.
C11_Severity ==
    Returns
    => /\ ~ret.err.nil
          => /\ Cardinality(AccessLogEntries) = 1
             /\ \A i \in AccessLogEntries :
                   logs[i].level = IF NormalizedStatus(ret.err) >= 500 THEN "error" ELSE "warn"
       /\ ret.err.nil
          => /\ \A i \in CallEntries : logs[i].level # "error"
             /\ \A i \in 1..Len(logs) :
                   logs[i].level = "error"
                   => (i \in SetHeaderEntries /\ side = "server" /\ cpu.set = "failed")
             /\ config.EnableAccessInterceptor
                => \E i \in AccessLogEntries :
                      /\ logs[i].level = "info"
                      /\ <<"event", "normal">> \in Range(logs[i].fields)

C11_Witness ==
    /\ Returns /\ side = "server"
    /\ ret.err.nil
    /\ cpu.set = "failed"
    /\ Len(logs) = 2
    /\ logs[1].msg = "set header error" /\ logs[1].level = "error"
    /\ logs[2].msg = "access" /\ logs[2].level = "info"
    /\ <<"event", "normal">> \in Range(logs[2].fields)

\* C12: after any sequence of registry updates CustomContextKeys() is the
\* list passed to the most recent Set, element for element, and
\* CustomContextKeysLength() is its length.
C12_LastSetWins ==
    /\ CustomContextKeys = lastSet
    /\ CustomContextKeysLength = Len(lastSet)

C12_Witness ==
    /\ nsets >= 1
    /\ setLog = {<<"X-Uid", "x-rid">>, <<"x-rid", "X-Uid">>}
    /\ lastSet = <<"x-rid", "X-Uid">>
    /\ CustomContextKeys = <<"x-rid", "X-Uid">>
    /\ CustomContextKeysLength = 2

\* C13: the context that WithValue(ctx, k, v) returns yields v under a
\* registered name k, whatever ctx held under k, and ctx itself still yields
\* what it held: for the value customHeader stores on the client and the
\* value the unary default interceptor stores on the server, the caller's
\* context holding all along what it held when the call began.
CustomHeaderAt == CHOOSE i \in 1..Len(chain) : chain[i] = "customHeader"

SrvDefaultAt == CHOOSE i \in 1..Len(chain) : chain[i] = "srvDefault"

Registered(k) == \E l \in setLog : k \in Range(l)

\* The caller's context as it is now.
CallerCtx == [ctxs[1] EXCEPT !.vals = callerVals]

C13_ValueRoundTrip ==
    /\ (side = "client" /\ Len(ctxs) > CustomHeaderAt)
       => \A k \in Range(extraKeys) :
             LET before == ctxs[CustomHeaderAt]
                 after == ctxs[CustomHeaderAt + 1]
             IN  (Registered(k) /\ HeaderOf(before, k) # "")
                 => /\ Value(after, k) = HeaderOf(before, k)
                    /\ Value(CallerCtx, k) = Value(before, k)
    /\ (side = "server" /\ Len(ctxs) > SrvDefaultAt)
       => \A k \in Range(lg.keys) :
             LET before == ctxs[SrvDefaultAt]
                 after == ctxs[SrvDefaultAt + 1]
             IN  (Registered(k) /\ HeaderOf(before, k) # "")
                 => /\ Value(after, k) = HeaderOf(before, k)
                    /\ Value(CallerCtx, k) = Value(before, k)
    /\ side # "none" => callerVals = ctxs[1].vals

C13_Witness ==
    /\ side = "client" /\ Finished
    /\ "X-Uid" \in Range(extraKeys)
    /\ HeaderOf(ctxs[CustomHeaderAt], "X-Uid") = "u9"
    /\ Value(ctxs[CustomHeaderAt], "X-Uid") = "u1"
    /\ Value(ctxs[CustomHeaderAt + 1], "X-Uid") = "u9"
    /\ Value(CallerCtx, "X-Uid") = "u1"

\* C14: on a unary and on a streaming server call, for every registered
\* header name whose value in the incoming carrier is not empty, the context
\* the handler receives holds that value under the name, and every log entry
\* of the call has it as a field.
RegisteredThroughout(k) == \A l \in setLog : k \in Range(l)

C14_ServerHeaders ==
    (Finished /\ ServerSide)
    => \A k \in Names :
          LET v == HeaderOf(ctxs[1], k)
          IN  (RegisteredThroughout(k) /\ v # "")
              => /\ Value(ctxs[Len(chain) + 1], k) = v
                 /\ \A i \in 1..Len(logs) : <<k, v>> \in Range(logs[i].fields)

\* C15: the peer label the server's metrics interceptor records is the
\* application name the incoming carrier declares, and "unknown" when the
\* call has no incoming metadata and when its metadata has no "app" entry.
DeclaredApps == MDGet(ctxs[1].inc, "app")

C15_PeerLabel ==
    (Finished /\ ServerSide)
    => LET label == IF DeclaredApps = <<>> THEN "unknown" ELSE Join(DeclaredApps, ",")
       IN  /\ Len(metrics.counter) = 1
           /\ metrics.counter[1][1] = label
           /\ metrics.histogram = <<label>>

\* C16: a tracing interceptor finishes the span it started exactly once per
\* call, when the call it delegated has ended and not before, whether that
\* call returned, returned an error or panicked; no call ends with its span
\* unfinished.
TraceAt == CHOOSE i \in 1..Len(chain) : chain[i] \in TraceNames

TraceExited == Finished \/ depth < TraceAt

C16_SpanFinishedOnce ==
    /\ span.started <= 1
    /\ span.finished <= span.started
    /\ span.finished = 1 => (invoked.kind # "none" /\ TraceExited)
    /\ (span.started = 1 /\ TraceExited) => span.finished = 1
    /\ Finished => span.started = 1

C16_Witness ==
    /\ Finished /\ side = "client"
    /\ invoked.kind = "panic" /\ ret.kind = "panic"
    /\ span.started = 1 /\ span.finished = 1

\* C17: when a traced call (client unary, server unary, server stream) ends
\* with an error, the span as it was finished has the derived status code,
\* the error mark and an event with the error's message; the span of a call
\* that ended without error has no error mark.
C17_SpanTaggedOnError ==
    Returns
    => /\ ~ret.err.nil
          => span.sealed = <<IF ret.err.st THEN ret.err.code ELSE Unknown, TRUE,
                             ErrorText(ret.err)>>
       /\ ret.err.nil => (~span.error /\ span.sealed = <<-1, FALSE, "">>)

\* C18: when the timeout interceptor derived a deadline because the caller
\* had none, the cancel function is called exactly once, after the invoker
\* returned or panicked and on each of these exits; when the caller had a
\* deadline no cancel function is made and none is called.
TimeoutEntered == side = "client" /\ Len(ctxs) > TimeoutAt

TimeoutExited == TimeoutEntered /\ (Finished \/ depth < TimeoutAt)

C18_CancelOnce ==
    /\ tmo.cancels <= 1
    /\ tmo.cancels = 1 => (tmo.made /\ invoked.kind # "none" /\ TimeoutExited)
    /\ TimeoutEntered => (tmo.made <=> ctxs[TimeoutAt].deadline = NoDeadline)
    /\ TimeoutExited => tmo.cancels = IF ctxs[TimeoutAt].deadline = NoDeadline THEN 1 ELSE 0

C18_Witness ==
    /\ Finished /\ side = "client"
    /\ ctxs[TimeoutAt].deadline = NoDeadline
    /\ invoked.kind = "panic" /\ ret.kind = "panic"
    /\ tmo.made /\ tmo.cancels = 1

\* C19: in a unary call every interceptor of the chain (client: debug,
\* trace, metric, timeout, customHeader, default, logger; server: trace,
\* prometheus, default) calls the next stage exactly once, and the real
\* invocation happens exactly once: never a second time while the call
\* runs, never zero times when the call has ended.
Count(e) == Cardinality({i \in 1..Len(events) : events[i] = e})

UnaryCall == side \in {"client", "server"}

C19_NextCalledOnce ==
    UnaryCall
    => /\ \A i \in 1..Len(chain) :
             /\ Count(<<"pre", chain[i]>>) <= 1
             /\ Count(<<"post", chain[i]>>) <= Count(<<"pre", chain[i]>>)
             /\ Finished => Count(<<"pre", chain[i]>>) = 1
       /\ Count(<<"invoke", "invoke">>) <= 1
       /\ Count(<<"invoke", "invoke">>) = 1 <=> invoked.kind # "none"
       /\ Finished => Count(<<"invoke", "invoke">>) = 1
       /\ Len(ctxs) <= Len(chain) + 1
       /\ Finished => Len(ctxs) = Len(chain) + 1

C19_Witness ==
    /\ Finished /\ side = "client"
    /\ ctxs[1].deadline = 1 /\ now > 1
    /\ ~invoked.err.nil
    /\ \A i \in 1..Len(chain) : Count(<<"pre", chain[i]>>) = 1
    /\ Count(<<"invoke", "invoke">>) = 1

\* C20: in one call the interceptors hand over to the next stage in
\* composition order, outermost first, all before the real invocation; they
\* exit in the reverse order, all after it; and what they do after the next
\* stage returned is there only then: the metrics are recorded once every
\* interceptor inside the metrics interceptor has exited and are complete
\* when it exits, and the span finished, the cancel function called, the
\* access and slow entries and the debug lines written are there once their
\* interceptor has exited.
Pres == [i \in 1..Len(chain) |-> <<"pre", chain[i]>>]

Posts == [i \in 1..Len(chain) |-> <<"post", chain[Len(chain) + 1 - i]>>]

Expected == Pres \o <<<<"invoke", "invoke">>>> \o Posts

Exited(names) == \E n \in names : Count(<<"post", n>>) > 0

\* The interceptor named is doing its post-work or has exited: the real
\* invocation has ended and every stage inside the interceptor has returned.
PostReached(names) ==
    \E i \in 1..Len(chain) :
        chain[i] \in names /\ invoked.kind # "none" /\ phase \in {"post", "done"} /\ depth <= i

ClientCall == side \in {"client", "clientStream"}

Sent == ctxs[Len(chain) + 1].out

Added == SubSeq(Sent, Len(callerOut) + 1, Len(Sent))

LoggerAt == CHOOSE i \in 1..Len(chain) : chain[i] = "logger"

C21_CallerCarrierKept ==
    ClientCall
    => /\ callerOut = ctxs[1].out
       /\ invoked.kind # "none"
          => /\ IsPrefix(callerOut, Sent)
             /\ <<"app", "ego-app">> \in Range(Added)
             /\ <<"enable-cpu-usage", "true">> \in Range(Added) <=> config.EnableCPUUsage
             /\ side = "client"
                => /\ <<"uber-trace-id", "t1">> \in Range(Added)
                   /\ \A k \in Range(lg.keys) :
                         Value(ctxs[LoggerAt], k) # ""
                         => <<k, Value(ctxs[LoggerAt], k)>> \in Range(Added)
             /\ \A e \in Range(callerOut) :
                   e[1] \notin {"app", "enable-cpu-usage", "uber-trace-id"}

C21_Witness ==
    /\ Finished /\ side = "client"
    /\ callerOut = <<<<"X-Uid", "u1">>>>
    /\ config.EnableCPUUsage
    /\ lg.keys = <<"X-Uid", "x-rid">>
    /\ Added = <<<<"uber-trace-id", "t1">>, <<"app", "ego-app">>,
                 <<"enable-cpu-usage", "true">>, <<"X-Uid", "u1">>>>

\* C22: a call that returns through a metrics interceptor (client unary,
\* server unary, server stream) has recorded one counter increment, under
\* the label of the outcome the next stage returned, and one histogram
\* observation; so has a server call whose handler panicked; and with
\* another call recording at the same time, each collector (the client's,
\* the server's) holds one increment and one observation for each call that
\* recorded in it.
MainCounted(l) == Cardinality({i \in 1..Len(metrics.counter) : metrics.counter[i][2] = l})

\* The call under way records in the collector of its side.
MainOn(c) == IF c = "client" THEN side = "client" ELSE ServerSide

\* The other call has incremented the counter / observed the histogram of
\* collector c: a client call counts first, a server call observes first.
BgCounted(c, l) ==
    IF /\ bg.side = c
       /\ bg.pc \in (IF c = "client" THEN {"counted", "done"} ELSE {"done"})
       /\ StatusText(NormalizedStatus(bg.err)) = l
    THEN 1 ELSE 0

BgObserved(c) ==
    IF bg.side = c /\ bg.pc \in (IF c = "client" THEN {"done"} ELSE {"observed", "done"})
    THEN 1 ELSE 0

MetricsExited == Exited(MetricNames) /\ ret.kind = "ret"

C22_OneRecordPerCall ==
    /\ Len(metrics.counter) <= 1
    /\ Len(metrics.histogram) <= 1
    /\ side = "client" => Len(metrics.histogram) <= Len(metrics.counter)
    /\ ServerSide => Len(metrics.counter) <= Len(metrics.histogram)
    /\ MetricsExited => Len(metrics.counter) = 1 /\ Len(metrics.histogram) = 1
    /\ Returns
       => /\ Len(metrics.counter) = 1 /\ Len(metrics.histogram) = 1
          /\ metrics.counter[1][2] = StatusText(NormalizedStatus(ret.err))
    /\ \A c \in {"client", "server"} :
          /\ \A l \in OutcomeLabels :
                totals[c].counter[l]
                   = (IF MainOn(c) THEN MainCounted(l) ELSE 0) + BgCounted(c, l)
          /\ totals[c].histogram
                = (IF MainOn(c) THEN Len(metrics.histogram) ELSE 0) + BgObserved(c)

C22_Witness ==
    /\ Returns /\ side = "stream"
    /\ Len(metrics.histogram) = 1
    /\ invoked.kind = "panic"
    /\ bg.side = "server" /\ bg.pc = "done" /\ bg.err = StatusErr(Internal, "boom")
    /\ metrics.counter[1][2] = "Internal Server Error"
    /\ totals.server.counter["Internal Server Error"] = 2
    /\ totals.server.histogram = 2
    /\ totals.client = NoCollector

====
